---- MODULE Spec2Model ----
(***************************************************************************)
(* A model of gdal_sliding_crop.py: crop_tif_images_with_gdal walks the    *)
(* input directory for .tif rasters and cuts each into a grid of           *)
(* fixed-size windows, writing every window as a file of its own under the *)
(* output directory.                                                       *)
(*                                                                         *)
(* Paths and file names are strings; a character of a string s is          *)
(* SubSeq(s, k, k).  Positions are 1-based, 0 meaning "not found" (the     *)
(* code's -1).                                                             *)
(***************************************************************************)
EXTENDS Integers, Sequences, FiniteSets, TLC

VARIABLES
    input_directory,   \* parameter: the directory that is searched
    output_directory,  \* parameter: the directory the tiles are written to
    window_size,       \* parameter: <<width, height>>
    step_size,         \* parameter: the stride on both axes
    files,             \* the regular files under input_directory (relative path names)
    rasters,           \* file -> <<RasterXSize, RasterYSize>> of its raster
    outdir,            \* what is at output_directory: "absent", "readonly", "file", "dir"
    pc,                \* the position of the run in the function
    tif_paths,         \* the discovered paths, in discovery order
    progress_bar,      \* [total, n, closed] of the tqdm bar, or None before line 31
    idx,               \* position of the file loop in tif_paths (1-based)
    dataset,           \* the open raster [path, RasterXSize, RasterYSize], or None
    top_i,             \* position of the loop of line 40 in its range (1-based)
    left_i,            \* position of the loop of line 41 in its range (1-based)
    exc,               \* the message of the exception in flight, "" when none
    opened,            \* history: every path handed to gdal.Open, in order
    translated,        \* history: every call of gdal.Translate, in order
    disk,              \* the paths gdal.Translate has written
    stdout,            \* the lines printed by line 56
    file_state         \* history: per attempted file, "opened", "skipped" (no dataset),
                       \* "open-failed", "crop-failed" or "windows-exhausted"

vars == <<input_directory, output_directory, window_size, step_size, files, rasters,
          outdir, pc, tif_paths, progress_bar, idx, dataset, top_i, left_i, exc,
          opened, translated, disk, stdout, file_state>>

\* Python's None, where a dataset or the bar may be missing
None == [none |-> TRUE]

(***************************************************************************)
(* Bounds of the model.                                                    *)
(***************************************************************************)
MaxDim == 3      \* rasters are 0..MaxDim pixels wide and high
MaxWin == 2      \* windows are 1..MaxWin pixels wide and high
MaxStep == 2     \* the step is 1..MaxStep

(***************************************************************************)
(* Strings.  The library routines are functions, so that an argument is    *)
(* evaluated once, where it is applied.                                    *)
(***************************************************************************)
Ch(s, k) == SubSeq(s, k, k)

Max(S) == CHOOSE m \in S : \A n \in S : n <= m

Strings == Seq(STRING)

\* str.rfind for a single character: the last position of c in s, 0 if none
rfind[s \in STRING, c \in STRING] ==
    LET at == {k \in 1..Len(s) : Ch(s, k) = c}
    IN  IF at = {} THEN 0 ELSE Max(at)

\* str.lower, on the letters the model's names use
LowerCh(c) ==
    CASE c = "T" -> "t"
      [] c = "I" -> "i"
      [] c = "F" -> "f"
      [] c = "A" -> "a"
      [] c = "B" -> "b"
      [] c = "C" -> "c"
      [] OTHER -> c

lower[s \in STRING] ==
    IF s = "" THEN "" ELSE LowerCh(Ch(s, 1)) \o lower[SubSeq(s, 2, Len(s))]

endswith[s \in STRING, suffix \in STRING] ==
    /\ Len(s) >= Len(suffix)
    /\ SubSeq(s, Len(s) - Len(suffix) + 1, Len(s)) = suffix

startswith[s \in STRING, prefix \in STRING] ==
    /\ Len(s) >= Len(prefix)
    /\ SubSeq(s, 1, Len(prefix)) = prefix

\* str.replace(old, new) for a single character old
replace[s \in STRING, old \in STRING, new \in STRING] ==
    IF s = "" THEN ""
    ELSE (IF Ch(s, 1) = old THEN new ELSE Ch(s, 1)) \o replace[SubSeq(s, 2, Len(s)), old, new]

\* str.split(sep) for a single character sep: a sequence of strings
split[s \in STRING, c \in STRING] ==
    LET at == {k \in 1..Len(s) : Ch(s, k) = c}
    IN  IF at = {} THEN <<s>>
        ELSE Append(split[SubSeq(s, 1, Max(at) - 1), c], SubSeq(s, Max(at) + 1, Len(s)))

\* str(n) of a non-negative integer, as the f-string of line 49 formats it
Digit(d) == Ch("0123456789", d + 1)

str[n \in Nat] == IF n < 10 THEN Digit(n) ELSE str[n \div 10] \o Digit(n % 10)

(***************************************************************************)
(* posixpath.                                                              *)
(***************************************************************************)
sep == "/"

\* os.path.join(a, b)
join[a \in STRING, b \in STRING] ==
    IF startswith[b, sep] THEN b
    ELSE IF a = "" \/ endswith[a, sep] THEN a \o b
    ELSE a \o sep \o b

\* os.path.splitext(p): <<root, ext>>; leading dots of the name are no extension
splitext[p \in STRING] ==
    LET sepIndex == rfind[p, sep]
        dotIndex == rfind[p, "."]
    IN  IF /\ dotIndex > sepIndex
           /\ \E k \in (sepIndex + 1)..(dotIndex - 1) : Ch(p, k) # "."
        THEN <<SubSeq(p, 1, dotIndex - 1), SubSeq(p, dotIndex, Len(p))>>
        ELSE <<p, "">>

\* [x for x in abspath(p).split(sep) if x], for an absolute p without . and ..
path_list[p \in STRING] == SelectSeq(split[p, sep], LAMBDA x : x # "")

commonprefix_len[a \in Strings, b \in Strings] ==
    IF a = <<>> \/ b = <<>> \/ Head(a) # Head(b) THEN 0
    ELSE 1 + commonprefix_len[Tail(a), Tail(b)]

\* os.path.join(*parts)
join_all[parts \in Strings] ==
    IF Len(parts) = 1 THEN parts[1]
    ELSE join[join_all[SubSeq(parts, 1, Len(parts) - 1)], parts[Len(parts)]]

\* os.path.relpath(path, start)
relpath[path \in STRING, start \in STRING] ==
    LET start_list == path_list[start]
        plist == path_list[path]
        i == commonprefix_len[start_list, plist]
        rel_list == [k \in 1..(Len(start_list) - i) |-> ".."] \o SubSeq(plist, i + 1, Len(plist))
    IN  IF rel_list = <<>> THEN "." ELSE join_all[rel_list]

\* os.path.normpath of an absolute path without . and ..: what names the same file
normpath[p \in STRING] == join_all[<<sep>> \o path_list[p]]

(***************************************************************************)
(* The program's constants.                                                *)
(***************************************************************************)
supported_format == "tif"

\* the window and the step of the invocation at the end of the file
window_default == 1000
step_default == 1000

\* range(start, stop, step) for a positive step, as a sequence
range_len(start, stop, step) ==
    IF stop > start THEN (stop - start + step - 1) \div step ELSE 0

range(start, stop, step) ==
    [k \in 1..range_len(start, stop, step) |-> start + (k - 1) * step]

(***************************************************************************)
(* The file system the run finds.                                          *)
(***************************************************************************)
\* the directory part and the name of a relative file name
dir_parts(f) == LET parts == split[f, sep] IN SubSeq(parts, 1, Len(parts) - 1)

file_name(f) == LET parts == split[f, sep] IN parts[Len(parts)]

\* line 28: the filter on the file's name
is_tif(file) == endswith[lower[file], "." \o supported_format]

\* lines 26-29: os.walk yields subdir = top joined with each directory below it in
\* turn, and the path appended is os.path.join(subdir, file)
walk_path(top, f) == join[join_all[<<top>> \o dir_parts(f)], file_name(f)]

is_proper_prefix(a, b) == Len(a) < Len(b) /\ SubSeq(b, 1, Len(a)) = a

\* the orders os.walk can yield the matching files in: a directory's own files come
\* before the files of the directories below it; the order within a listing is the
\* file system's
walk_orders(top, fs) ==
    LET tifs == {f \in fs : is_tif(file_name(f))}
        n == Cardinality(tifs)
    IN  { [k \in 1..n |-> walk_path(top, o[k])] :
            o \in { q \in [1..n -> tifs] :
                      /\ \A i, j \in 1..n : i # j => q[i] # q[j]
                      /\ \A i, j \in 1..n :
                           i < j => ~ is_proper_prefix(dir_parts(q[j]), dir_parts(q[i])) } }

Sizes == (0..MaxDim) \X (0..MaxDim)

Windows == (1..MaxWin) \X (1..MaxWin)

Steps == 1..MaxStep

\* the directory trees of the model: the two directories, the relative names of
\* the regular files under the input directory, and what can be at the output path
Layouts ==
    { [inp |-> "/i",  out |-> "/o",  fs |-> {},
       at |-> {"absent", "readonly", "file", "dir"}],
      [inp |-> "/i",  out |-> "/o",  fs |-> {"a/b.tif"},
       at |-> {"absent", "readonly", "file", "dir"}],
      [inp |-> "/i/", out |-> "/o/", fs |-> {"a/b.tif", "a_b.tif"},
       at |-> {"absent", "dir"}],
      [inp |-> "/i",  out |-> "/i",  fs |-> {"a.tif", "a_0_0_1_1.tif"},
       at |-> {"dir"}],
      [inp |-> "/i",  out |-> "/o",  fs |-> {"c.TIF", "n.txt"},
       at |-> {"dir"}],
      [inp |-> "/i/", out |-> "/o",  fs |-> {"a/.tif"},
       at |-> {"dir", "file"}] }

tif_files(l) == {walk_path(l.inp, f) : f \in {g \in l.fs : is_tif(file_name(g))}}

Start ==
    /\ pc = "makedirs"
    /\ tif_paths = <<>>
    /\ progress_bar = None
    /\ idx = 1
    /\ dataset = None
    /\ top_i = 1
    /\ left_i = 1
    /\ exc = ""
    /\ opened = <<>>
    /\ translated = <<>>
    /\ disk = {}
    /\ stdout = <<>>
    /\ file_state = <<>>

\* a call with small rasters, windows and steps; the rasters of one tree are
\* sheets of one size
SmallInit ==
    /\ \E l \in Layouts :
         /\ input_directory = l.inp
         /\ output_directory = l.out
         /\ files = l.fs
         /\ outdir \in l.at
         /\ rasters \in [tif_files(l) -> Sizes]
         /\ \A p, q \in tif_files(l) : rasters[p] = rasters[q]
    /\ window_size \in Windows
    /\ step_size \in Steps
    /\ Start

\* the call of lines 64-69 on a tree holding a/b.tif, 2000 x 1500
ExampleInit ==
    /\ input_directory = "/i"
    /\ output_directory = "/o"
    /\ files = {"a/b.tif"}
    /\ outdir = "dir"
    /\ rasters = [p \in {"/i/a/b.tif"} |-> <<2000, 1500>>]
    /\ window_size = <<window_default, window_default>>
    /\ step_size = step_default
    /\ Start

Init == SmallInit \/ ExampleInit

(***************************************************************************)
(* crop_tif_images_with_gdal, step by step.                                *)
(***************************************************************************)
tif_path == tif_paths[idx]

\* lines 18-19: os.makedirs unless the path exists; a path that cannot be created
\* raises out of the function
MakeDirs ==
    /\ pc = "makedirs"
    /\ IF outdir \in {"dir", "file"}
       THEN /\ pc' = "walk"
            /\ UNCHANGED <<outdir, exc>>
       ELSE IF outdir = "absent"
       THEN /\ outdir' = "dir"
            /\ pc' = "walk"
            /\ UNCHANGED exc
       ELSE /\ exc' = "Permission denied"
            /\ pc' = "raised"
            /\ UNCHANGED outdir
    /\ UNCHANGED <<input_directory, output_directory, window_size, step_size, files,
                   rasters, tif_paths, progress_bar, idx, dataset, top_i, left_i,
                   opened, translated, disk, stdout, file_state>>

\* lines 25-29
Walk ==
    /\ pc = "walk"
    /\ tif_paths' \in walk_orders(input_directory, files)
    /\ pc' = "tqdm"
    /\ UNCHANGED <<input_directory, output_directory, window_size, step_size, files,
                   rasters, outdir, progress_bar, idx, dataset, top_i, left_i, exc,
                   opened, translated, disk, stdout, file_state>>

\* line 31
Tqdm ==
    /\ pc = "tqdm"
    /\ progress_bar' = [total |-> Len(tif_paths), n |-> 0, closed |-> FALSE]
    /\ idx' = 1
    /\ pc' = "for"
    /\ UNCHANGED <<input_directory, output_directory, window_size, step_size, files,
                   rasters, outdir, tif_paths, dataset, top_i, left_i, exc,
                   opened, translated, disk, stdout, file_state>>

\* line 33: the next path, or the end of the loop
ForFile ==
    /\ pc = "for"
    /\ pc' = IF idx <= Len(tif_paths) THEN "open" ELSE "close"
    /\ UNCHANGED <<input_directory, output_directory, window_size, step_size, files,
                   rasters, outdir, tif_paths, progress_bar, idx, dataset, top_i,
                   left_i, exc, opened, translated, disk, stdout, file_state>>

\* lines 35-39 with the continue of line 37 leaving the loop body past the finally
\* clause
Open_skip_update ==
    /\ pc = "open"
    /\ opened' = Append(opened, tif_path)
    /\ \/ /\ dataset' = [path |-> tif_path,
                         RasterXSize |-> rasters[tif_path][1],
                         RasterYSize |-> rasters[tif_path][2]]
          /\ top_i' = 1
          /\ left_i' = 1
          /\ pc' = "windows"
          /\ file_state' = Append(file_state, "opened")
          /\ UNCHANGED <<exc, idx>>
       \/ /\ dataset' = None
          /\ pc' = "for"
          /\ idx' = idx + 1
          /\ file_state' = Append(file_state, "skipped")
          /\ UNCHANGED <<top_i, left_i, exc>>
       \/ /\ exc' = "not recognized as a supported file format"
          /\ pc' = "except"
          /\ file_state' = Append(file_state, "open-failed")
          /\ UNCHANGED <<dataset, top_i, left_i, idx>>
    /\ UNCHANGED <<input_directory, output_directory, window_size, step_size, files,
                   rasters, outdir, tif_paths, progress_bar, translated, disk,
                   stdout>>

\* lines 35-39: gdal.Open returns a dataset, returns None (line 37 continues, through
\* the finally clause), or raises
Open ==
    /\ pc = "open"
    /\ opened' = Append(opened, tif_path)
    /\ \/ /\ dataset' = [path |-> tif_path,
                         RasterXSize |-> rasters[tif_path][1],
                         RasterYSize |-> rasters[tif_path][2]]
          /\ top_i' = 1
          /\ left_i' = 1
          /\ pc' = "windows"
          /\ file_state' = Append(file_state, "opened")
          /\ UNCHANGED exc
       \/ /\ dataset' = None
          /\ pc' = "finally"
          /\ file_state' = Append(file_state, "skipped")
          /\ UNCHANGED <<top_i, left_i, exc>>
       \/ /\ exc' = "not recognized as a supported file format"
          /\ pc' = "except"
          /\ file_state' = Append(file_state, "open-failed")
          /\ UNCHANGED <<dataset, top_i, left_i>>
    /\ UNCHANGED <<input_directory, output_directory, window_size, step_size, files,
                   rasters, outdir, tif_paths, progress_bar, idx, translated, disk,
                   stdout>>

\* line 40 with the "+ 1" of the stop forgotten
top_range_short(img_height) == range(0, img_height - window_size[2], step_size)

\* line 41 with the window's width not subtracted from the stop
left_range_wide(img_width) == range(0, img_width, step_size)

\* line 40
top_range(img_height) == range(0, img_height - window_size[2] + 1, step_size)

\* line 41
left_range(img_width) == range(0, img_width - window_size[1] + 1, step_size)

\* lines 47-49 with the separators of the relative path left in the name
cropped_img_name_nested(path, left, top, right, bottom) ==
    LET relative_path == relpath[path, input_directory]
        base_name == splitext[relative_path][1]
        ext == splitext[relative_path][2]
    IN  base_name \o "_" \o str[left] \o "_" \o str[top] \o "_"
          \o str[right] \o "_" \o str[bottom] \o ext

\* lines 47-49 with the vertical position left out of the name
cropped_img_name_columns(path, left, top, right, bottom) ==
    LET relative_path == relpath[path, input_directory]
        base_name == splitext[relative_path][1]
        ext == splitext[relative_path][2]
    IN  replace[base_name, sep, "_"] \o "_" \o str[left] \o "_" \o str[right] \o ext

\* lines 47-49
cropped_img_name(path, left, top, right, bottom) ==
    LET relative_path == relpath[path, input_directory]
        base_name == splitext[relative_path][1]
        ext == splitext[relative_path][2]
    IN  replace[base_name, sep, "_"] \o "_" \o str[left] \o "_" \o str[top] \o "_"
          \o str[right] \o "_" \o str[bottom] \o ext

\* lines 43-54: one window; gdal.Translate writes the tile, which takes a directory
\* at the output path, or raises
Translate ==
    /\ pc = "windows"
    /\ top_i <= Len(top_range(dataset.RasterYSize))
    /\ left_i <= Len(left_range(dataset.RasterXSize))
    /\ LET top == top_range(dataset.RasterYSize)[top_i]
           left == left_range(dataset.RasterXSize)[left_i]
           bottom == top + window_size[2]
           right == left + window_size[1]
           cropped_img_path ==
               join[output_directory, cropped_img_name(tif_path, left, top, right, bottom)]
           srcwin == <<left, top, window_size[1], window_size[2]>>
           call(ok) == [src |-> tif_path, dest |-> cropped_img_path, srcWin |-> srcwin,
                        right |-> right, bottom |-> bottom, ok |-> ok]
       IN  \/ /\ outdir = "dir"
              /\ translated' = Append(translated, call(TRUE))
              /\ disk' = disk \cup {cropped_img_path}
              /\ left_i' = left_i + 1
              /\ UNCHANGED <<pc, exc, file_state>>
           \/ /\ translated' = Append(translated, call(FALSE))
              /\ exc' = "cannot create " \o cropped_img_path
              /\ pc' = "except"
              /\ file_state' = [file_state EXCEPT ![idx] = "crop-failed"]
              /\ UNCHANGED <<disk, left_i>>
    /\ UNCHANGED <<input_directory, output_directory, window_size, step_size, files,
                   rasters, outdir, tif_paths, progress_bar, idx, dataset, top_i,
                   opened, stdout>>

\* line 41 exhausted: the next top of line 40
NextRow ==
    /\ pc = "windows"
    /\ top_i <= Len(top_range(dataset.RasterYSize))
    /\ left_i > Len(left_range(dataset.RasterXSize))
    /\ top_i' = top_i + 1
    /\ left_i' = 1
    /\ UNCHANGED <<input_directory, output_directory, window_size, step_size, files,
                   rasters, outdir, pc, tif_paths, progress_bar, idx, dataset, exc,
                   opened, translated, disk, stdout, file_state>>

\* line 40 exhausted: the try block ends
WindowsDone ==
    /\ pc = "windows"
    /\ top_i > Len(top_range(dataset.RasterYSize))
    /\ pc' = "finally"
    /\ file_state' = [file_state EXCEPT ![idx] = "windows-exhausted"]
    /\ UNCHANGED <<input_directory, output_directory, window_size, step_size, files,
                   rasters, outdir, tif_paths, progress_bar, idx, dataset, top_i,
                   left_i, exc, opened, translated, disk, stdout>>

\* lines 55-56 with the handler inside the loop of line 41: the next window follows
Except_resume ==
    /\ pc = "except"
    /\ stdout' = Append(stdout, "Error processing " \o tif_path \o ": " \o exc)
    /\ exc' = ""
    /\ pc' = IF file_state[idx] = "crop-failed" THEN "windows" ELSE "finally"
    /\ left_i' = IF file_state[idx] = "crop-failed" THEN left_i + 1 ELSE left_i
    /\ UNCHANGED <<input_directory, output_directory, window_size, step_size, files,
                   rasters, outdir, tif_paths, progress_bar, idx, dataset, top_i,
                   opened, translated, disk, file_state>>

\* lines 55-56 with the exception raised again after it is printed
Except_reraise ==
    /\ pc = "except"
    /\ stdout' = Append(stdout, "Error processing " \o tif_path \o ": " \o exc)
    /\ pc' = "raised"
    /\ UNCHANGED <<input_directory, output_directory, window_size, step_size, files,
                   rasters, outdir, tif_paths, progress_bar, idx, dataset, top_i,
                   left_i, exc, opened, translated, disk, file_state>>

\* lines 55-56
Except ==
    /\ pc = "except"
    /\ stdout' = Append(stdout, "Error processing " \o tif_path \o ": " \o exc)
    /\ exc' = ""
    /\ pc' = "finally"
    /\ UNCHANGED <<input_directory, output_directory, window_size, step_size, files,
                   rasters, outdir, tif_paths, progress_bar, idx, dataset, top_i,
                   left_i, opened, translated, disk, file_state>>

\* lines 57-58, and back to line 33
Finally ==
    /\ pc = "finally"
    /\ progress_bar' = [progress_bar EXCEPT !.n = @ + 1]
    /\ idx' = idx + 1
    /\ pc' = "for"
    /\ UNCHANGED <<input_directory, output_directory, window_size, step_size, files,
                   rasters, outdir, tif_paths, dataset, top_i, left_i, exc, opened,
                   translated, disk, stdout, file_state>>

\* line 60
Close ==
    /\ pc = "close"
    /\ progress_bar' = [progress_bar EXCEPT !.closed = TRUE]
    /\ pc' = "done"
    /\ UNCHANGED <<input_directory, output_directory, window_size, step_size, files,
                   rasters, outdir, tif_paths, idx, dataset, top_i, left_i, exc,
                   opened, translated, disk, stdout, file_state>>

Next ==
    \/ MakeDirs
    \/ Walk
    \/ Tqdm
    \/ ForFile
    \/ Open
    \/ Translate
    \/ NextRow
    \/ WindowsDone
    \/ Except
    \/ Finally
    \/ Close

Spec == Init /\ [][Next]_vars

\* the run is one sequential thread: a step that can be taken is taken
FairSpec == Spec /\ WF_vars(Next)

(***************************************************************************)
(* What the run has done, read off the histories.                          *)
(***************************************************************************)
\* the calls of gdal.Translate made for the source path p, and those that wrote
calls_of(p) == {k \in 1..Len(translated) : translated[k].src = p}

tiles_of(p) == {k \in calls_of(p) : translated[k].ok}

\* the files whose iteration of the loop of line 33 is over
attempted == 1..Len(file_state)

finished == {i \in attempted : i < idx}

\* the name, relative to the input directory, of the file discovered as path p
rel_name(p) == CHOOSE f \in files : walk_path(input_directory, f) = p

w == window_size[1]

h == window_size[2]

(***************************************************************************)
(* C1. A raster that was opened and whose windows were all cropped without *)
(* a failure has floor((H-h)/s + 1) * floor((W-w)/s + 1) tiles when W >= w *)
(* and H >= h, and no tile otherwise.                                      *)
(***************************************************************************)
TileCount ==
    \A i \in attempted :
        file_state[i] = "windows-exhausted" =>
            LET W == rasters[tif_paths[i]][1]
                H == rasters[tif_paths[i]][2]
                tiles == {translated[k].dest : k \in tiles_of(tif_paths[i])}
            IN  Cardinality(tiles) =
                    IF W >= w /\ H >= h
                    THEN ((H - h) \div step_size + 1) * ((W - w) \div step_size + 1)
                    ELSE 0

\* a raster with a dropped trailing strip gave several tiles
TileCountWitness ==
    \E i \in attempted :
        /\ file_state[i] = "windows-exhausted"
        /\ Cardinality(tiles_of(tif_paths[i])) >= 2
        /\ (rasters[tif_paths[i]][1] - w) % step_size # 0

(***************************************************************************)
(* C2. Every window handed to gdal.Translate lies inside its raster:       *)
(* 0 <= left, right = left + w <= W, 0 <= top, bottom = top + h <= H, left *)
(* and top are multiples of the step, and the window has the full size.    *)
(***************************************************************************)
WindowInBounds ==
    \A k \in 1..Len(translated) :
        LET c == translated[k]
            W == rasters[c.src][1]
            H == rasters[c.src][2]
            left == c.srcWin[1]
            top == c.srcWin[2]
        IN  /\ c.srcWin[3] = w
            /\ c.srcWin[4] = h
            /\ 0 <= left
            /\ c.right = left + w
            /\ c.right <= W
            /\ 0 <= top
            /\ c.bottom = top + h
            /\ c.bottom <= H
            /\ left % step_size = 0
            /\ top % step_size = 0

\* the last window of a row, with a strip narrower than the window left over
WindowInBoundsWitness ==
    \E k \in 1..Len(translated) :
        LET c == translated[k]
            W == rasters[c.src][1]
        IN  /\ c.ok
            /\ c.right < W
            /\ W - c.right < w
            /\ c.srcWin[1] + step_size + w > W

(***************************************************************************)
(* The naming rule as the specification words it, on the file's name       *)
(* relative to the input directory.                                        *)
(***************************************************************************)
\* the last component of a relative name
last_component(f) == SubSeq(f, rfind[f, "/"] + 1, Len(f))

\* the final extension of f: from the last dot of its last component on, unless
\* that component has nothing but dots before it
final_ext(f) ==
    LET name == last_component(f)
        dots == {k \in 1..Len(name) : Ch(name, k) = "."}
    IN  IF dots # {} /\ (\E k \in 1..(Max(dots) - 1) : Ch(name, k) # ".")
        THEN SubSeq(name, Max(dots), Len(name))
        ELSE ""

without_ext(f) == SubSeq(f, 1, Len(f) - Len(final_ext(f)))

\* x is b with every path separator replaced by an underscore
is_flat_of(x, b) ==
    /\ Len(x) = Len(b)
    /\ \A k \in 1..Len(b) : Ch(x, k) = IF Ch(b, k) = "/" THEN "_" ELSE Ch(b, k)

\* the directory and the file name of an output path
dest_dir(d) == SubSeq(d, 1, rfind[d, "/"] - 1)

dest_name(d) == SubSeq(d, rfind[d, "/"] + 1, Len(d))

\* the output directory without a trailing separator
out_dir == IF endswith[output_directory, "/"]
           THEN SubSeq(output_directory, 1, Len(output_directory) - 1)
           ELSE output_directory

is_example ==
    /\ files = {"a/b.tif"}
    /\ rasters[walk_path(input_directory, "a/b.tif")] = <<2000, 1500>>
    /\ window_size = <<1000, 1000>>
    /\ step_size = 1000

\* translated only grows, at its end: each call is the last one in the state it
\* is made in, so a property of the last call, in every state, is one of all calls

(***************************************************************************)
(* C3. Every tile is written directly in the output directory, under the   *)
(* name flat_base _ left _ top _ right _ bottom ext, flat_base being the   *)
(* relative source path without its final extension and with every         *)
(* separator replaced by an underscore; and the run on a/b.tif, 2000x1500, *)
(* window (1000,1000), step 1000, writes exactly a_b_0_0_1000_1000.tif and *)
(* a_b_1000_0_2000_1000.tif.                                               *)
(***************************************************************************)
TileName ==
    /\ \A k \in {Len(translated)} \ {0} :
         LET c == translated[k]
             f == rel_name(c.src)
             base == without_ext(f)
             name == dest_name(c.dest)
             left == c.srcWin[1]
             top == c.srcWin[2]
         IN  /\ dest_dir(c.dest) = out_dir
             /\ is_flat_of(SubSeq(name, 1, Len(base)), base)
             /\ SubSeq(name, Len(base) + 1, Len(name)) =
                    "_" \o str[left] \o "_" \o str[top] \o "_" \o str[left + w]
                        \o "_" \o str[top + h] \o final_ext(f)
    /\ (is_example /\ pc = "done" /\ file_state = <<"windows-exhausted">>) =>
           disk = {"/o/a_b_0_0_1000_1000.tif", "/o/a_b_1000_0_2000_1000.tif"}

\* the example has run to its end
TileNameWitness ==
    /\ is_example
    /\ pc = "done"
    /\ file_state = <<"windows-exhausted">>
    /\ Len(translated) = 2

(***************************************************************************)
(* C4. Two distinct (source file, window) pairs of a run never get the     *)
(* same output file name, provided the relative paths of the two files     *)
(* differ after their separators are flattened.                            *)
(***************************************************************************)
NamesUnique ==
    \A j \in 1..Len(translated), k \in {Len(translated)} :
        LET a == translated[j]
            b == translated[k]
        IN  (/\ j # k
             /\ \/ a.src = b.src
                \/ replace[rel_name(a.src), "/", "_"] # replace[rel_name(b.src), "/", "_"])
            => a.dest # b.dest

\* two files, one named like a tile of the other, both cropped into several tiles
NamesUniqueWitness ==
    \E j, k, m \in 1..Len(translated) :
        /\ translated[j].src # translated[k].src
        /\ translated[j].dest = join[output_directory, rel_name(translated[k].src)]
        /\ translated[k].src = translated[m].src
        /\ k # m
        /\ translated[j].ok /\ translated[k].ok /\ translated[m].ok

\* the lines of stdout that report the path p
lines_about(p) ==
    {n \in 1..Len(stdout) : startswith[stdout[n], "Error processing " \o p \o ": "]}

(***************************************************************************)
(* C5. A file for which gdal.Open returns no dataset gives no tile and one *)
(* diagnostic line, and the files after it are still attempted.            *)
(***************************************************************************)
UnopenableLoggedOnce ==
    \A i \in finished :
        file_state[i] = "skipped" =>
            /\ calls_of(tif_paths[i]) = {}
            /\ Cardinality(lines_about(tif_paths[i])) = 1
            /\ pc = "done" => opened = tif_paths

(***************************************************************************)
(* C6. A crop that raises is caught for its file: one line "Error          *)
(* processing {path}: {message}" is printed for the file, no later window  *)
(* of the file is cropped, the tiles of the file written before stay on    *)
(* disk, and the next discovered file is attempted.                        *)
(***************************************************************************)
CropErrorPerFile ==
    \A i \in attempted :
        LET p == tif_paths[i]
            failing == {k \in calls_of(p) : ~ translated[k].ok}
        IN  failing # {} =>
                /\ Cardinality(failing) = 1
                /\ \A k \in failing : k = Max(calls_of(p))
                /\ \A k \in tiles_of(p) : translated[k].dest \in disk
                /\ i \in finished =>
                       /\ Cardinality(lines_about(p)) = 1
                       /\ \A k \in failing, n \in lines_about(p) :
                            stdout[n] = "Error processing " \o p \o ": cannot create "
                                            \o translated[k].dest
                /\ pc \in {"close", "done"} => opened = tif_paths
                /\ i < Len(tif_paths) /\ Len(opened) > i => opened[i + 1] = tif_paths[i + 1]

\* a crop failed after a tile of the file was written, and the file after it was
\* cropped to its end
CropErrorPerFileWitness ==
    /\ pc = "done"
    /\ Len(file_state) = 2
    /\ file_state[1] = "crop-failed"
    /\ tiles_of(tif_paths[1]) # {}
    /\ file_state[2] = "windows-exhausted"
    /\ tiles_of(tif_paths[2]) # {}

(***************************************************************************)
(* C7. No file the run writes is a discovered source file: every tile goes *)
(* to a path in the output directory that is none of the source rasters,   *)
(* whatever the two directories are.                                       *)
(***************************************************************************)
SourcesUntouched ==
    \A k \in 1..Len(translated) :
        translated[k].ok =>
            /\ dest_dir(translated[k].dest) = out_dir
            /\ normpath[translated[k].dest] \notin
                   {normpath[tif_paths[n]] : n \in 1..Len(tif_paths)}

(***************************************************************************)
(* C8. The progress bar's total is the number of discovered files; its     *)
(* count is the number of files whose attempt is over, whatever the        *)
(* outcome of each; when it is closed the count is the total.              *)
(***************************************************************************)
ProgressCounts ==
    pc \in {"for", "open", "windows", "except", "finally", "close", "done"} =>
        /\ progress_bar.total = Len(tif_paths)
        /\ progress_bar.n = IF pc \in {"windows", "except", "finally"}
                            THEN Len(opened) - 1
                            ELSE Len(opened)
        /\ progress_bar.n = Cardinality(finished)
        /\ progress_bar.closed => progress_bar.n = progress_bar.total

\* the bar is closed at 2 of 2 after a skipped file and a failed one
ProgressCountsWitness ==
    /\ pc = "done"
    /\ progress_bar.closed
    /\ progress_bar.n = 2
    /\ \E i, j \in attempted :
         /\ file_state[i] = "skipped"
         /\ file_state[j] \in {"crop-failed", "open-failed"}

(***************************************************************************)
(* C9. Once the output directory is there the run completes: no exception  *)
(* leaves the file loop, and the run reaches its end with the bar closed   *)
(* and every discovered file attempted exactly once, in discovery order.   *)
(***************************************************************************)
RunCompletes ==
    /\ [](pc = "raised" => opened = <<>> /\ tif_paths = <<>>)
    /\ [](pc = "walk" => <>(pc = "done" /\ progress_bar.closed /\ opened = tif_paths))

\* a run over two files, one failing at open and one at a crop, has ended
RunCompletesWitness ==
    /\ pc = "done"
    /\ Len(tif_paths) = 2
    /\ opened = tif_paths
    /\ \E i, j \in attempted :
         /\ file_state[i] = "open-failed"
         /\ file_state[j] = "crop-failed"

(***************************************************************************)
(* C10. The output directory is there before any file is discovered or     *)
(* opened; when no usable output directory can be made the run fails at    *)
(* once, with no file opened and no tile written.                          *)
(***************************************************************************)
OutputDirOrFatal ==
    /\ pc \notin {"makedirs", "raised"} => outdir = "dir"
    /\ outdir \in {"readonly", "file"} =>
           /\ pc \in {"makedirs", "raised"}
           /\ opened = <<>>
           /\ disk = {}

====
